---- MODULE Spec2Model ----
(***************************************************************************)
(* A model of holoborodko_diff.py: coeffs(M) and the recursive holo_diff   *)
(* (x, y, M).  Array values are exact rationals [n, d] in lowest terms;    *)
(* numpy slices, broadcasting and slice assignment are modelled by what    *)
(* they do (negative bounds, None, clamping, shape errors).  holo_diff is  *)
(* run on an explicit call stack, one action per statement group.          *)
(***************************************************************************)
EXTENDS Integers, Sequences, FiniteSets, TLC

VARIABLES xin, yin, Min, stack, result, outcome, errlens, raisedepth

vars == <<xin, yin, Min, stack, result, outcome, errlens, raisedepth>>

\* ---------------------------------------------------------------- bounds
\* largest order M handed to the top-level call
MaxM == 4
\* largest len(y) (and len(x)) handed to the top-level call
MaxLen == 7

\* ------------------------------------------------------------- rationals
Abs(i) == IF i < 0 THEN -i ELSE i

Sign(i) == IF i < 0 THEN -1 ELSE IF i > 0 THEN 1 ELSE 0

\* Arithmetic is defined through functions: a function application
\* evaluates its arguments once.
GCD[a \in Nat, b \in Nat] == IF b = 0 THEN a ELSE GCD[b, a % b]

\* the value n/d in lowest terms with d > 0; d = 0 stands for a non-finite
\* float (inf or nan), which every operation propagates
Norm[n \in Int, d \in Int] ==
  IF d = 0 THEN [n |-> 0, d |-> 0]
  ELSE [n |-> Sign(d) * (n \div GCD[Abs(n), Abs(d)]),
        d |-> Abs(d) \div GCD[Abs(n), Abs(d)]]

R(n, d) == Norm[n, d]

Rat == [n : Int, d : Nat]

RInt(i) == [n |-> i, d |-> 1]

RZero == RInt(0)

Add[a \in Rat, b \in Rat] == R(a.n * b.d + b.n * a.d, a.d * b.d)

Sub[a \in Rat, b \in Rat] == R(a.n * b.d - b.n * a.d, a.d * b.d)

Mul[a \in Rat, b \in Rat] == R(a.n * b.n, a.d * b.d)

Div[a \in Rat, b \in Rat] == R(a.n * b.d, a.d * b.n)

RAdd(a, b) == Add[a, b]

RSub(a, b) == Sub[a, b]

RMul(a, b) == Mul[a, b]

RDiv(a, b) == Div[a, b]

RECURSIVE Pow2(_)
Pow2(e) == IF e <= 0 THEN 1 ELSE 2 * Pow2(e - 1)

RECURSIVE RSum(_)
RSum(s) == IF s = <<>> THEN RZero ELSE RAdd(Head(s), RSum(Tail(s)))

\* ---------------------------------------------------------------- numpy
\* a slice bound: an integer or None
Idx(v) == [some |-> TRUE, v |-> v]

None == [some |-> FALSE, v |-> 0]

\* Python's `v or None`: 0 is falsy
OrNone(v) == IF v = 0 THEN None ELSE Idx(v)

Clamp(v, n) == IF v < 0 THEN 0 ELSE IF v > n THEN n ELSE v

\* a bound of a slice of a length-n sequence, as a 0-based position in 0..n
SliceStart(lo, n) ==
  IF ~lo.some THEN 0 ELSE Clamp(IF lo.v < 0 THEN lo.v + n ELSE lo.v, n)

SliceStop(hi, n) ==
  IF ~hi.some THEN n ELSE Clamp(IF hi.v < 0 THEN hi.v + n ELSE hi.v, n)

\* s[lo:hi]
PySlice(s, lo, hi) ==
  SubSeq(s, SliceStart(lo, Len(s)) + 1, SliceStop(hi, Len(s)))

SliceLen(s, lo, hi) == Len(PySlice(s, lo, hi))

\* shapes (a,) and (b,) broadcast together
BroadcastOK(a, b) == a = b \/ a = 1 \/ b = 1

BroadcastLen(a, b) == IF a = 1 THEN b ELSE a

At(s, j) == IF Len(s) = 1 THEN s[1] ELSE s[j]

\* elementwise a - b and a / b with broadcasting
VSub(a, b) ==
  [j \in 1..BroadcastLen(Len(a), Len(b)) |-> RSub(At(a, j), At(b, j))]

VDiv(a, b) ==
  [j \in 1..BroadcastLen(Len(a), Len(b)) |-> RDiv(At(a, j), At(b, j))]

VScale(r, a) == [j \in 1..Len(a) |-> RMul(r, a[j])]

\* s[lo:hi] = v is accepted (v has the slice's length, or broadcasts to it)
SliceAssignOK(s, lo, hi, v) ==
  Len(v) = SliceLen(s, lo, hi) \/ Len(v) = 1

\* s after s[lo:hi] = v
SliceAssign(s, lo, hi, v) ==
  LET a == SliceStart(lo, Len(s))
      b == SliceStop(hi, Len(s))
  IN  [j \in 1..Len(s) |-> IF j > a /\ j <= b THEN At(v, j - a) ELSE s[j]]

\* 0/1 marks of the entries s[lo:hi] = v writes
SliceMarks(n, lo, hi) ==
  [j \in 1..n |-> IF j > SliceStart(lo, n) /\ j <= SliceStop(hi, n) THEN 1 ELSE 0]

Zeros(n) == [j \in 1..n |-> RZero]

\* fk.sum(axis=0) of an M x w array held as a sequence of rows
SumAxis0(fk, w) ==
  [j \in 1..w |-> RSum([i \in 1..Len(fk) |-> fk[i][j]])]

\* --------------------------------------------------------------- coeffs
RECURSIVE Binom(_, _)
Binom(n, k) ==
  IF k = 0 \/ k = n THEN 1 ELSE Binom(n - 1, k - 1) + Binom(n - 1, k)

\* scipy.special.comb(N, k): 0 outside 0 <= k <= N
comb(N, k) == IF k < 0 \/ k > N \/ N < 0 THEN 0 ELSE Binom(N, k)

\* a bug: the second binomial taken at m - k instead of m - k - 1
CoeffAt_WrongOffset(M, k) ==
  LET m == (2 * M - 2) \div 2
  IN  RMul(R(1, Pow2(2 * m + 1)),
           RInt(comb(2 * m, m - k + 1) - comb(2 * m, m - k)))

\* a bug: the scale 1/2^(2m) instead of 1/2^(2m+1)
CoeffAt_WrongPower(M, k) ==
  LET m == (2 * M - 2) \div 2
  IN  RMul(R(1, Pow2(2 * m)),
           RInt(comb(2 * m, m - k + 1) - comb(2 * m, m - k - 1)))

\* line 24, for one k
CoeffAt(M, k) ==
  LET m == (2 * M - 2) \div 2
  IN  RMul(R(1, Pow2(2 * m + 1)),
           RInt(comb(2 * m, m - k + 1) - comb(2 * m, m - k - 1)))

\* coeffs(M): c[k] for k = 1..M
coeffs(M) == [k \in 1..M |-> CoeffAt(M, k)]

\* ------------------------------------------------------------ holo_diff
\* the x argument: a scalar step or an array
Scalar(h) == [scalar |-> TRUE, step |-> h, arr |-> <<>>]

Arr(s) == [scalar |-> FALSE, step |-> RZero, arr |-> s]

\* x*np.arange(n)
Arange(h, n) == [j \in 1..n |-> RMul(h, RInt(j - 1))]

\* the frame of a call holo_diff(x, y, M), about to run line 53
NewFrame(x, y, M) ==
  [x |-> x, y |-> y, M |-> M, pc |-> "check", c |-> <<>>, fk |-> <<>>,
   i |-> 0, df |-> <<>>, dflo |-> <<>>, dfhi |-> <<>>, wr |-> <<>>]

Top == stack[Len(stack)]

SetTop(f) == [stack EXCEPT ![Len(stack)] = f]

Running == outcome = "running" /\ stack # <<>>

\* an uncaught exception unwinds every frame
Raise(kind, lens) ==
  /\ stack' = <<>>
  /\ outcome' = kind
  /\ errlens' = lens
  /\ raisedepth' = Len(stack)
  /\ UNCHANGED <<xin, yin, Min, result>>

Step(f) ==
  /\ stack' = SetTop(f)
  /\ UNCHANGED <<xin, yin, Min, result, outcome, errlens, raisedepth>>

\* lines 53-54: a scalar x becomes x*np.arange(len(y))
Expand(f) == IF f.x.scalar THEN Arr(Arange(f.x.step, Len(f.y))) ELSE f.x

\* a bug: the assert only rejects an x longer than y
LengthsMatch_AtMost(x, y) == Len(x.arr) <= Len(y)

\* line 55: the assert's condition
LengthsMatch(x, y) == Len(x.arr) = Len(y)

\* lines 53-56, the assert passes
CheckOK ==
  /\ Running /\ Top.pc = "check"
  /\ LengthsMatch(Expand(Top), Top.y)
  /\ Step([Top EXCEPT !.x = Expand(Top), !.pc = "coeffs"])

\* lines 53-56, the assert fails with both lengths in its message
CheckFail ==
  /\ Running /\ Top.pc = "check"
  /\ ~LengthsMatch(Expand(Top), Top.y)
  /\ Raise("AssertionError", <<Len(Expand(Top).arr), Len(Top.y)>>)

\* lines 57-59
Coeffs ==
  /\ Running /\ Top.pc = "coeffs"
  /\ Step([Top EXCEPT !.c = coeffs(Top.M), !.pc = "alloc"])

\* a bug: df allocated one entry short
ZerosLike_Short(y) == Zeros(Len(y) - 1)

\* line 60: np.zeros_like(y)
ZerosLike(y) == Zeros(Len(y))

\* line 62: the second dimension of fk
FkWidth(nf, M) == nf - 2 * M

\* lines 60-62, np.zeros((M, nf - 2*M)) accepts its shape
AllocOK ==
  /\ Running /\ Top.pc = "alloc"
  /\ FkWidth(Len(Top.y), Top.M) >= 0
  /\ Step([Top EXCEPT !.df = ZerosLike(Top.y),
                      !.wr = [j \in 1..Len(Top.y) |-> 0],
                      !.fk = [r \in 1..Top.M |-> Zeros(FkWidth(Len(Top.y), Top.M))],
                      !.i = 0,
                      !.pc = "loop"])

\* lines 60-62, np.zeros rejects a negative dimension
AllocFail ==
  /\ Running /\ Top.pc = "alloc"
  /\ FkWidth(Len(Top.y), Top.M) < 0
  /\ Raise("ValueError", <<>>)

\* lines 66-72: the slice bounds of offset k
Ill(M, k) == Idx(M - k)

Ilr(M, k) == Idx(M + k)

Iul(M, k) == Idx(-M - k)

\* a bug: the upper bound without `or None`, 0 when k = M
Iur_NoNone(M, k) == Idx(-M + k)

Iur(M, k) == OrNone(-M + k)

\* lines 73-74: the four slices line up
RowShapesOK(f, k) ==
  /\ BroadcastOK(SliceLen(f.y, Ilr(f.M, k), Iur(f.M, k)),
                 SliceLen(f.y, Ill(f.M, k), Iul(f.M, k)))
  /\ BroadcastOK(SliceLen(f.x.arr, Ilr(f.M, k), Iur(f.M, k)),
                 SliceLen(f.x.arr, Ill(f.M, k), Iul(f.M, k)))
  /\ BroadcastOK(
       BroadcastLen(SliceLen(f.y, Ilr(f.M, k), Iur(f.M, k)),
                    SliceLen(f.y, Ill(f.M, k), Iul(f.M, k))),
       BroadcastLen(SliceLen(f.x.arr, Ilr(f.M, k), Iur(f.M, k)),
                    SliceLen(f.x.arr, Ill(f.M, k), Iul(f.M, k))))

\* lines 73-74: 2.*k*cc*(y[ilr:iur] - y[ill:iul])/(x[ilr:iur] - x[ill:iul])
Row(f, k) ==
  VDiv(VScale(RMul(RInt(2 * k), f.c[k]),
              VSub(PySlice(f.y, Ilr(f.M, k), Iur(f.M, k)),
                   PySlice(f.y, Ill(f.M, k), Iul(f.M, k)))),
       VSub(PySlice(f.x.arr, Ilr(f.M, k), Iur(f.M, k)),
            PySlice(f.x.arr, Ill(f.M, k), Iul(f.M, k))))

\* lines 63-74: one iteration of the loop over enumerate(c), k = i + 1
StencilRow ==
  /\ Running /\ Top.pc = "loop"
  /\ Top.i < Len(Top.c)
  /\ IF RowShapesOK(Top, Top.i + 1)
        /\ SliceAssignOK(Top.fk[Top.i + 1], None, None, Row(Top, Top.i + 1))
     THEN Step([Top EXCEPT
            !.fk = [@ EXCEPT ![Top.i + 1] =
                      SliceAssign(@, None, None, Row(Top, Top.i + 1))],
            !.i = @ + 1])
     ELSE Raise("ValueError", <<>>)

\* a bug: the order-1 call recurses too
IsRecursive_Always(M) == M > 0

\* line 81
IsRecursive(M) == M > 1

\* line 75: df[M:-M] = fk.sum(axis=0), then the branch of line 81
Interior ==
  /\ Running /\ Top.pc = "loop"
  /\ Top.i >= Len(Top.c)
  /\ LET s == SumAxis0(Top.fk, FkWidth(Len(Top.y), Top.M))
     IN  IF SliceAssignOK(Top.df, Idx(Top.M), Idx(-Top.M), s)
         THEN Step([Top EXCEPT
                !.df = SliceAssign(@, Idx(Top.M), Idx(-Top.M), s),
                !.wr = [j \in 1..Len(@) |->
                          @[j] + SliceMarks(Len(@), Idx(Top.M), Idx(-Top.M))[j]],
                !.pc = IF IsRecursive(Top.M) THEN "call_lo" ELSE "base"])
         ELSE Raise("ValueError", <<>>)

\* lines 82-83: the order of the recursive calls
SubOrder(M) == M - 1

\* line 82: x[:2*M], y[:2*M]
LoArgs(s, M) == PySlice(s, None, Idx(2 * M))

\* a bug: the last 2M-1 samples
HiArgs_Short(s, M) == PySlice(s, Idx(-2 * M + 1), None)

\* line 83: x[-2*M:], y[-2*M:]
HiArgs(s, M) == PySlice(s, Idx(-2 * M), None)

Call(f) ==
  /\ stack' = Append(SetTop([Top EXCEPT !.pc = IF @ = "call_lo" THEN "wait_lo"
                                                ELSE "wait_hi"]), f)
  /\ UNCHANGED <<xin, yin, Min, result, outcome, errlens, raisedepth>>

\* line 82: dflo = holo_diff(x[:2*M], y[:2*M], M=M-1)
CallLo ==
  /\ Running /\ Top.pc = "call_lo"
  /\ Call(NewFrame(Arr(LoArgs(Top.x.arr, Top.M)), LoArgs(Top.y, Top.M),
                   SubOrder(Top.M)))

\* line 83: dfhi = holo_diff(x[-2*M:], y[-2*M:], M=M-1)
CallHi ==
  /\ Running /\ Top.pc = "call_hi"
  /\ Call(NewFrame(Arr(HiArgs(Top.x.arr, Top.M)), HiArgs(Top.y, Top.M),
                   SubOrder(Top.M)))

\* a bug: the last M entries of dflo
EdgeLoSrc_Tail(dflo, M) == PySlice(dflo, Idx(-M), None)

\* line 84: the source of df[:M]
EdgeLoSrc(dflo, M) == PySlice(dflo, None, Idx(M))

\* a bug: the first M entries of dfhi
EdgeHiSrc_Head(dfhi, M) == PySlice(dfhi, None, Idx(M))

\* line 85: the source of df[-M:]
EdgeHiSrc(dfhi, M) == PySlice(dfhi, Idx(-M), None)

\* lines 84-85: df[:M] = dflo[:M]; df[-M:] = dfhi[-M:]
Edges ==
  /\ Running /\ Top.pc = "edges"
  /\ LET lo  == EdgeLoSrc(Top.dflo, Top.M)
         hi  == EdgeHiSrc(Top.dfhi, Top.M)
         df1 == SliceAssign(Top.df, None, Idx(Top.M), lo)
     IN  IF /\ SliceAssignOK(Top.df, None, Idx(Top.M), lo)
            /\ SliceAssignOK(df1, Idx(-Top.M), None, hi)
         THEN Step([Top EXCEPT
                !.df = SliceAssign(df1, Idx(-Top.M), None, hi),
                !.wr = [j \in 1..Len(@) |->
                          @[j] + SliceMarks(Len(@), None, Idx(Top.M))[j]
                               + SliceMarks(Len(@), Idx(-Top.M), None)[j]],
                !.pc = "ret"])
         ELSE Raise("ValueError", <<>>)

\* s[i] for a Python index i: the 1-based position, 0 when out of range
PyPos(n, i) ==
  LET p == IF i < 0 THEN i + n ELSE i
  IN  IF p >= 0 /\ p < n THEN p + 1 ELSE 0

\* line 87: (y[1] - y[0])/(x[1] - x[0])
BaseFirst(x, y) == RDiv(RSub(y[2], y[1]), RSub(x[2], x[1]))

\* a bug: line 87's forward difference pasted for df[-1]
BaseLast_Forward(x, y) == RDiv(RSub(y[2], y[1]), RSub(x[2], x[1]))

\* line 88: (y[-1] - y[-2])/(x[-1] - x[-2])
BaseLast(x, y) ==
  LET n == Len(y)
  IN  RDiv(RSub(y[PyPos(n, -1)], y[PyPos(n, -2)]),
           RSub(x[PyPos(n, -1)], x[PyPos(n, -2)]))

\* lines 87-88: the two-point differences of the order-1 call
Base ==
  /\ Running /\ Top.pc = "base"
  /\ LET n  == Len(Top.y)
         nd == Len(Top.df)
     IN  IF PyPos(n, 1) # 0 /\ PyPos(n, -2) # 0 /\ PyPos(nd, 0) # 0
         THEN Step([Top EXCEPT
                !.df = [[@ EXCEPT ![PyPos(nd, 0)] = BaseFirst(Top.x.arr, Top.y)]
                           EXCEPT ![PyPos(nd, -1)] = BaseLast(Top.x.arr, Top.y)],
                !.wr = [j \in 1..Len(@) |->
                          @[j] + (IF j = PyPos(nd, 0) THEN 1 ELSE 0)
                               + (IF j = PyPos(nd, -1) THEN 1 ELSE 0)],
                !.pc = "ret"])
         ELSE Raise("IndexError", <<>>)

\* line 89 of a recursive call made on line 82
ReturnLo ==
  /\ Running /\ Top.pc = "ret" /\ Len(stack) > 1
  /\ stack[Len(stack) - 1].pc = "wait_lo"
  /\ stack' = [SubSeq(stack, 1, Len(stack) - 1) EXCEPT
                 ![Len(stack) - 1] = [@ EXCEPT !.dflo = Top.df, !.pc = "call_hi"]]
  /\ UNCHANGED <<xin, yin, Min, result, outcome, errlens, raisedepth>>

\* line 89 of a recursive call made on line 83
ReturnHi ==
  /\ Running /\ Top.pc = "ret" /\ Len(stack) > 1
  /\ stack[Len(stack) - 1].pc = "wait_hi"
  /\ stack' = [SubSeq(stack, 1, Len(stack) - 1) EXCEPT
                 ![Len(stack) - 1] = [@ EXCEPT !.dfhi = Top.df, !.pc = "edges"]]
  /\ UNCHANGED <<xin, yin, Min, result, outcome, errlens, raisedepth>>

\* line 89 of the top-level call
ReturnTop ==
  /\ Running /\ Top.pc = "ret" /\ Len(stack) = 1
  /\ stack' = <<>>
  /\ result' = Top.df
  /\ outcome' = "returned"
  /\ UNCHANGED <<xin, yin, Min, errlens, raisedepth>>

\* ---------------------------------------------------------------- inputs
\* scalar step sizes
Steps == {R(1, 2), RInt(2)}

\* strictly increasing abscissae of length n: 0, 1, 2, ... with one value
\* skipped after position p (p = n: uniform)
XSeq(n, p) == [j \in 1..n |-> RInt((j - 1) + (IF j > p THEN 1 ELSE 0))]

XSeqs(n) == IF n = 0 THEN {<<>>} ELSE {XSeq(n, p) : p \in 1..n}

YVals == {RInt(0), RInt(1)}

\* samples of n values with at most two of them nonzero
YSeqs(n) ==
  {y \in [1..n -> YVals] : Cardinality({j \in 1..n : y[j] # RZero}) <= 2}

Slopes == {RInt(-1), R(1, 2), RInt(2)}

Offsets == {RZero, R(1, 3)}

Linear(xs, a, b) == [j \in 1..Len(xs) |-> RAdd(RMul(a, xs[j]), b)]

Start(x, y, M) ==
  /\ xin = x
  /\ yin = y
  /\ Min = M
  /\ stack = <<NewFrame(x, y, M)>>
  /\ result = <<>>
  /\ outcome = "running"
  /\ errlens = <<>>
  /\ raisedepth = 0

\* any samples y, with x a scalar or an array of any length
InitArbitrary ==
  \E M \in 1..MaxM, ly \in 0..MaxLen :
    \E y \in YSeqs(ly) :
      \/ \E h \in Steps : Start(Scalar(h), y, M)
      \/ \E lx \in 0..MaxLen : \E xs \in XSeqs(lx) : Start(Arr(xs), y, M)

\* xs cut or continued (in unit steps) to n abscissae
Resize(xs, n) ==
  [j \in 1..n |->
     IF j <= Len(xs) THEN xs[j]
     ELSE IF xs = <<>> THEN RInt(j - 1)
     ELSE RAdd(xs[Len(xs)], RInt(j - Len(xs)))]

\* n samples of a line y = a*x + b, with x a scalar step or an array of the
\* n abscissae (or of another number of them)
InitLinear ==
  \E M \in 1..MaxM, n \in 0..MaxLen, a \in Slopes, b \in Offsets :
      \/ \E h \in Steps : Start(Scalar(h), Linear(Arange(h, n), a, b), M)
      \/ \E lx \in 0..MaxLen : \E xs \in XSeqs(lx) :
           Start(Arr(xs), Linear(Resize(xs, n), a, b), M)

Init == InitArbitrary \/ InitLinear

Next ==
  \/ CheckOK
  \/ CheckFail
  \/ Coeffs
  \/ AllocOK
  \/ AllocFail
  \/ StencilRow
  \/ Interior
  \/ CallLo
  \/ CallHi
  \/ Edges
  \/ Base
  \/ ReturnLo
  \/ ReturnHi
  \/ ReturnTop

Spec == Init /\ [][Next]_vars

\* the interpreter runs the call to its end; the calls are those on samples
\* of a line
FairSpec == InitLinear /\ [][Next]_vars /\ WF_vars(Next)

\* ---------------------------------------------------------- vocabulary
Returned == outcome = "returned"

\* M >= 1, len(y) >= 2M+1, x a scalar or an array of len(y) entries
ValidInput ==
  /\ Min >= 1
  /\ Len(yin) >= 2 * Min + 1
  /\ (xin.scalar \/ Len(xin.arr) = Len(yin))

\* the abscissae of the top-level call: 0, step, 2*step, ... for a scalar
XIn ==
  [j \in 1..(IF xin.scalar THEN Len(yin) ELSE Len(xin.arr)) |->
     IF xin.scalar THEN RMul(xin.step, RInt(j - 1)) ELSE xin.arr[j]]

NonUniform(xs) ==
  \E j \in 2..(Len(xs) - 1) : RSub(xs[j + 1], xs[j]) # RSub(xs[j], xs[j - 1])

PastCheck(f) == f.pc # "check"

\* the order-e stencil centred at sample j (1-based), e >= 1
StencilAt(x, y, e, j) ==
  RSum([k \in 1..e |->
          RMul(RMul(RInt(2 * k), coeffs(e)[k]),
               RDiv(RSub(y[j + k], y[j - k]), RSub(x[j + k], x[j - k])))])

\* ------------------------------------------------------------------- C1
IsLine(a, b) ==
  /\ Len(XIn) = Len(yin)
  /\ \A j \in 1..Len(yin) : yin[j] = RAdd(RMul(a, XIn[j]), b)

\* C1: exactness on linear data.  When a call with M >= 1, len(y) >= 2M+1
\* and y[i] = a*x[i] + b on strictly increasing x (an array, uniform or not,
\* or a scalar step) has returned, every entry of the result, the first M
\* and last M included, is a.
C1_LinearExact ==
  \A a \in Slopes, b \in Offsets :
    (Returned /\ ValidInput /\ IsLine(a, b)) =>
      /\ Len(result) = Len(yin)
      /\ \A j \in 1..Len(result) : result[j] = a

C1_Witness ==
  /\ Returned /\ ValidInput /\ Min = 3
  /\ ~xin.scalar /\ NonUniform(xin.arr)
  /\ IsLine(R(1, 2), R(1, 3))
  /\ \A j \in 1..Len(yin) : result[j] = R(1, 2)

\* ------------------------------------------------------------------- C2
\* C2: interior stencil.  In every call with M >= 1 and
\* len(x) = len(y) >= 2M+1, for every k in 1..M (k = M included, where the
\* upper bound is None) the slices y[M+k : iur] and y[M-k : -M-k] (and the
\* same slices of x) taken in the loop have len(y)-2M entries, the j-th
\* being y[M+j+k] and y[M+j-k]; and right after line 75, and again when the
\* call returns, every interior entry df[i], M <= i <= len(y)-M-1, is
\* sum_k 2*k*c[k]*(y[i+k]-y[i-k])/(x[i+k]-x[i-k]).
C2_InteriorStencil ==
  /\ \A d \in DOMAIN stack :
       LET f == stack[d]
           n == Len(f.y)
           M == f.M
       IN  (M >= 1 /\ PastCheck(f) /\ n >= 2 * M + 1 /\ Len(f.x.arr) = n) =>
             /\ f.pc = "loop" => \A k \in 1..M :
                  /\ PySlice(f.y, Ilr(M, k), Iur(M, k))
                       = [j \in 1..(n - 2 * M) |-> f.y[M + j + k]]
                  /\ PySlice(f.y, Ill(M, k), Iul(M, k))
                       = [j \in 1..(n - 2 * M) |-> f.y[M + j - k]]
                  /\ PySlice(f.x.arr, Ilr(M, k), Iur(M, k))
                       = [j \in 1..(n - 2 * M) |-> f.x.arr[M + j + k]]
                  /\ PySlice(f.x.arr, Ill(M, k), Iul(M, k))
                       = [j \in 1..(n - 2 * M) |-> f.x.arr[M + j - k]]
             /\ f.pc \in {"call_lo", "base", "ret"} =>
                  \A j \in (M + 1)..(n - M) :
                    f.df[j] = StencilAt(f.x.arr, f.y, M, j)
  /\ (Returned /\ ValidInput) =>
       \A j \in (Min + 1)..(Len(yin) - Min) :
         result[j] = StencilAt(XIn, yin, Min, j)

C2_Witness ==
  /\ Returned /\ ValidInput /\ Min = 2 /\ Len(yin) = 7
  /\ ~xin.scalar /\ NonUniform(xin.arr)
  /\ \E j \in 3..5 : result[j] = StencilAt(XIn, yin, 2, j) /\ result[j] # RZero

\* ------------------------------------------------------------------- C3
NoDerivative ==
  /\ result = <<>>
  /\ \A d \in DOMAIN stack : stack[d].pc = "check" /\ stack[d].df = <<>>

\* x an array whose length differs from len(y): the call fails on the
\* assert of the top-level call, with both lengths, and computes nothing
MismatchFails ==
  (~xin.scalar /\ Len(xin.arr) # Len(yin)) =>
     /\ outcome \in {"running", "AssertionError"}
     /\ NoDerivative
     /\ outcome = "AssertionError" =>
          errlens = <<Len(xin.arr), Len(yin)>> /\ raisedepth = 1

\* C3 as claimed: a length mismatch fails with the precondition failure and
\* both lengths before any derivative value is computed, and a call with a
\* scalar x raises nothing, whatever len(y) is.
C3_Original ==
  /\ MismatchFails
  /\ xin.scalar => outcome \in {"running", "returned"}

\* C3 as amended: a length mismatch fails with the precondition failure and
\* both lengths before any derivative value is computed; a call with a
\* scalar x never raises the length-mismatch failure, whatever len(y) is,
\* and raises nothing at all when len(y) >= 2M.
C3_LengthMismatch ==
  /\ MismatchFails
  /\ xin.scalar =>
       /\ outcome # "AssertionError"
       /\ Len(yin) >= 2 * Min => outcome \in {"running", "returned"}

C3_Witness ==
  /\ ~xin.scalar /\ Len(xin.arr) = 5 /\ Len(yin) = 6
  /\ outcome = "AssertionError" /\ errlens = <<5, 6>>
  /\ result = <<>>

\* ------------------------------------------------------------------- C4
\* C4: shape invariant.  A call with valid input (M >= 1, len(y) >= 2M+1,
\* x a scalar or an array of len(y) entries) raises nothing and returns
\* exactly len(y) entries; every recursive call it makes returns as many
\* entries as the sub-sequence it was given.
C4_Shape ==
  ValidInput =>
    /\ outcome \in {"running", "returned"}
    /\ Returned => Len(result) = Len(yin)
    /\ \A d \in DOMAIN stack :
         stack[d].pc = "ret" => Len(stack[d].df) = Len(stack[d].y)

C4_Witness ==
  /\ ValidInput /\ Min = 3 /\ Len(stack) = 3
  /\ Top.pc = "ret" /\ Len(Top.df) = 4 /\ Len(Top.y) = 4

\* ------------------------------------------------------------------- C5
RECURSIVE Fact(_)
Fact(n) == IF n <= 0 THEN 1 ELSE n * Fact(n - 1)

\* C(n, r), 0 for r < 0 or r > n
Choose(n, r) ==
  IF r < 0 \/ r > n THEN 0 ELSE Fact(n) \div (Fact(r) * Fact(n - r))

ClosedNum(m, k) == Choose(2 * m, m - k + 1) - Choose(2 * m, m - k - 1)

RECURSIVE ISum(_)
ISum(s) == IF s = <<>> THEN 0 ELSE Head(s) + ISum(Tail(s))

\* C5: coefficient consistency.  For the order M >= 1 of every call, once
\* line 59 has run c = coeffs(M) has M entries, c[k] = (C(2m, m-k+1) - C(2m, m-k-1))/2^(2m+1)
\* with m = M-1, sum_k k*(C(2m, m-k+1) - C(2m, m-k-1)) = 4^m, and so
\* sum_k k*c[k] = 1/2 and the stencil weights 2*k*c[k] sum to 1.
C5_CoeffSum ==
  \A d \in DOMAIN stack :
    LET f == stack[d]
        M == f.M
        m == M - 1
    IN  (M >= 1 /\ f.pc = "alloc") =>
          /\ Len(f.c) = M
          /\ \A k \in 1..M : f.c[k] = R(ClosedNum(m, k), Pow2(2 * m + 1))
          /\ ISum([k \in 1..M |-> k * ClosedNum(m, k)]) = Pow2(2 * m)
          /\ RSum([k \in 1..M |-> RMul(RInt(k), f.c[k])]) = R(1, 2)
          /\ RSum([k \in 1..M |-> RMul(RInt(2 * k), f.c[k])]) = RInt(1)

C5_Witness ==
  /\ Len(stack) = 1 /\ Top.M = 4 /\ Top.pc = "alloc"
  /\ Top.c = <<R(7, 64), R(7, 64), R(3, 64), R(1, 128)>>

\* ------------------------------------------------------------------- C6
\* C6: base case edges.  A call with M = 1 and len(x) = len(y) >= 3 makes no
\* recursive call, and returns df[0] = (y[1]-y[0])/(x[1]-x[0]) and
\* df[len-1] = (y[len-1]-y[len-2])/(x[len-1]-x[len-2]).
C6_BaseEdges ==
  (Min = 1 /\ ValidInput) =>
    /\ Len(stack) <= 1
    /\ Returned =>
         LET n == Len(yin)
         IN  /\ Len(result) = n
             /\ result[1] = RDiv(RSub(yin[2], yin[1]), RSub(XIn[2], XIn[1]))
             /\ result[n] = RDiv(RSub(yin[n], yin[n - 1]),
                                 RSub(XIn[n], XIn[n - 1]))

C6_Witness ==
  /\ Returned /\ Min = 1 /\ ValidInput /\ Len(yin) = 4
  /\ ~xin.scalar /\ NonUniform(xin.arr)
  /\ result[1] = RInt(1) /\ result[4] = R(-1, 2)

\* ------------------------------------------------------------------- C7
\* every call on the stack has order >= 1 and order one less than its
\* caller's, only the innermost call can have order 1, and the nesting
\* depth is at most the top-level M
RecursionShape ==
  /\ Len(stack) <= Min
  /\ \A d \in DOMAIN stack :
       /\ stack[d].M >= 1
       /\ d > 1 => stack[d].M = stack[d - 1].M - 1
       /\ d < Len(stack) => stack[d].M > 1

\* C7: recursion termination.  A call with M >= 1 and valid input eventually
\* returns; each recursive call has order exactly one less than its caller,
\* no call has order below 1, a call of order 1 makes no recursive call, and
\* the nesting depth never exceeds M.
C7_Termination ==
  /\ [](ValidInput => RecursionShape)
  /\ (ValidInput => <>Returned)

C7_Witness ==
  /\ ValidInput /\ Min = 3 /\ Len(stack) = 3
  /\ stack[1].M = 3 /\ stack[2].M = 2 /\ stack[3].M = 1
  /\ stack[1].pc = "wait_hi" /\ stack[2].pc = "wait_hi" /\ Top.pc = "base"

\* ------------------------------------------------------------------- C8
FirstSamples(s, M) == SubSeq(s, 1, 2 * M)

LastSamples(s, M) == SubSeq(s, Len(s) - 2 * M + 1, Len(s))

\* a call waiting on line 82 (83) has handed the call above it the first
\* (last) 2M samples and the order M-1
CalleeArgs ==
  \A d \in 1..(Len(stack) - 1) :
    LET f == stack[d]
        g == stack[d + 1]
    IN  /\ f.pc \in {"wait_lo", "wait_hi"}
        /\ g.M = f.M - 1
        /\ ~g.x.scalar
        /\ f.pc = "wait_lo" =>
             /\ g.y = FirstSamples(f.y, f.M)
             /\ g.x.arr = FirstSamples(f.x.arr, f.M)
        /\ f.pc = "wait_hi" =>
             /\ g.y = LastSamples(f.y, f.M)
             /\ g.x.arr = LastSamples(f.x.arr, f.M)

\* once lines 84-85 have run, df[0:M] = dflo[0:M], df[len-M+j] = dfhi[M+j]
\* and the interior is what line 75 wrote
BoundaryFilled ==
  \A d \in DOMAIN stack :
    LET f == stack[d]
        n == Len(f.y)
        M == f.M
    IN  (M > 1 /\ n >= 2 * M + 1 /\ f.pc = "ret") =>
          /\ Len(f.dflo) = 2 * M /\ Len(f.dfhi) = 2 * M
          /\ \A j \in 1..M : f.df[j] = f.dflo[j]
          /\ \A j \in 1..M : f.df[n - M + j] = f.dfhi[M + j]
          /\ \A j \in (M + 1)..(n - M) :
               f.df[j] = RSum([k \in 1..M |-> f.fk[k][j - M]])

\* a returning recursive call hands its df to the caller's dflo (dfhi)
ReturnsValue ==
  (Len(stack) > 1 /\ Len(stack') = Len(stack) - 1) =>
     LET f == stack[Len(stack) - 1]
         g == stack'[Len(stack')]
     IN  /\ f.pc = "wait_lo" => (g.dflo = Top.df /\ g.dfhi = f.dfhi)
         /\ f.pc = "wait_hi" => (g.dfhi = Top.df /\ g.dflo = f.dflo)
         /\ g.df = f.df

\* C8: boundary fill by recursion.  For M > 1 and len(y) >= 2M+1, dflo is
\* the result of the call on the first 2M samples with order M-1 and dfhi
\* that of the call on the last 2M samples with order M-1; the result has
\* df[0:M] = dflo[0:M] and df[len-M+j] = dfhi[M+j] for j in 0..M-1, and the
\* boundary fill changes no interior entry df[M..len-M-1].
C8_BoundaryFill ==
  /\ [](ValidInput => (CalleeArgs /\ BoundaryFilled))
  /\ [][ValidInput => ReturnsValue]_vars

C8_Witness ==
  /\ ValidInput /\ Min = 3 /\ Len(stack) = 1 /\ Top.pc = "ret"
  /\ ~xin.scalar /\ NonUniform(xin.arr)
  /\ \E j \in 1..3 : Top.df[Len(Top.y) - 3 + j] # Top.dfhi[j]
  /\ \E j \in 1..3 : Top.df[j] # RZero

\* ------------------------------------------------------------------- C9
Min3(a, b, c) ==
  IF a <= b /\ a <= c THEN a ELSE IF b <= c THEN b ELSE c

\* the stencil of order min(j, n-1-j, M) centred at the 0-based index j-1:
\* the forward (backward) two-point difference at the first (last) sample
EffectiveAt(x, y, M, j) ==
  LET n == Len(y)
      e == Min3(j - 1, n - j, M)
  IN  IF j = 1 THEN RDiv(RSub(y[2], y[1]), RSub(x[2], x[1]))
      ELSE IF j = n THEN RDiv(RSub(y[n], y[n - 1]), RSub(x[n], x[n - 1]))
      ELSE StencilAt(x, y, e, j)

\* C9: effective order near the edges.  In every call with M >= 1 and
\* len(x) = len(y) = n >= 2M+1 that reaches its return, each entry df[j] has
\* been written exactly once and equals the stencil of order
\* min(j, n-1-j, M) centred at j on that call's samples (the two-point
\* forward and backward differences at j = 0 and j = n-1); the same holds of
\* the returned result on the original samples.
C9_EffectiveOrder ==
  /\ \A d \in DOMAIN stack :
       LET f == stack[d]
           n == Len(f.y)
       IN  (f.M >= 1 /\ n >= 2 * f.M + 1 /\ f.pc = "ret") =>
             /\ Len(f.df) = n /\ Len(f.wr) = n
             /\ \A j \in 1..n :
                  /\ f.wr[j] = 1
                  /\ f.df[j] = EffectiveAt(f.x.arr, f.y, f.M, j)
  /\ (Returned /\ ValidInput) =>
       /\ Len(result) = Len(yin)
       /\ \A j \in 1..Len(yin) : result[j] = EffectiveAt(XIn, yin, Min, j)

C9_Witness ==
  /\ Returned /\ ValidInput /\ Min = 3 /\ Len(yin) = 7
  /\ ~xin.scalar /\ NonUniform(xin.arr)
  /\ result[3] = StencilAt(XIn, yin, 2, 3) /\ result[3] # RZero
  /\ result[6] = StencilAt(XIn, yin, 1, 6) /\ result[6] # RZero
  /\ result[3] # StencilAt(XIn, yin, 1, 3)

\* ------------------------------------------------------------------ C10
\* the stencil's slice bounds and the base case's indices are positions of
\* the call's own samples, never clamped or wrapped
ReadsInRange(f) ==
  LET n == Len(f.y)
      M == f.M
  IN  /\ \A k \in 1..M :
           /\ Ill(M, k).v >= 0 /\ Ilr(M, k).v <= n
           /\ Iul(M, k).v + n >= 0 /\ Iul(M, k).v < 0
           /\ SliceStart(Ilr(M, k), n) + (n - 2 * M) = SliceStop(Iur(M, k), n)
           /\ SliceStart(Ill(M, k), n) + (n - 2 * M) = SliceStop(Iul(M, k), n)
      /\ PyPos(n, 1) # 0 /\ PyPos(n, -2) # 0

\* C10: preconditions are preserved down the recursion.  From a top-level
\* call with M >= 1 and len(x) = len(y) >= 2M+1, every recursive call of
\* order M' gets len(x') = len(y') = 2*(M'+1) >= 2*M'+1, so no call raises,
\* and every index the stencil and the base case read lies within the
\* call's samples; a length-mismatch failure is raised by a top-level call
\* only.
C10_PreconditionsPreserved ==
  /\ outcome = "AssertionError" => raisedepth = 1
  /\ ValidInput =>
       /\ outcome \in {"running", "returned"}
       /\ \A d \in DOMAIN stack :
            LET f == stack[d]
            IN  /\ f.M >= 1 /\ Len(f.y) >= 2 * f.M + 1
                /\ (d > 1 \/ PastCheck(f)) =>
                     /\ ~f.x.scalar
                     /\ Len(f.x.arr) = Len(f.y)
                     /\ ReadsInRange(f)
                /\ d > 1 => Len(f.y) = 2 * (f.M + 1)

C10_Witness ==
  /\ ValidInput /\ Min = 3 /\ Len(yin) = 7 /\ Len(stack) = 3
  /\ Len(stack[2].y) = 6 /\ Len(stack[3].y) = 4 /\ Len(stack[3].x.arr) = 4
  /\ stack[3].pc = "coeffs" /\ stack[2].pc = "wait_lo"

====
